---- MODULE Spec2Model ----
(***************************************************************************)
(* HeartMuLa on RunPod: the polling client (runpod/client.py) and the      *)
(* serverless worker handler (runpod/handler.py).                          *)
(*                                                                         *)
(* Spec       : one call of HeartMuLaClient.generate / generate_sync       *)
(*              against a remote queue that may answer anything.           *)
(* WorkerSpec : a worker process serving a sequence of jobs, the output    *)
(*              of each saved by the client that submitted it.             *)
(* CliSpec    : one run of the command line program, main().               *)
(*                                                                         *)
(* Python's dict.get(k) is modelled with optional values: <<>> is "key     *)
(* absent" (None), <<v>> is "key present with value v".                    *)
(* Time is in whole seconds. Floats are in tenths (1.5 is 15).             *)
(***************************************************************************)
EXTENDS Integers, Sequences, FiniteSets, TLC

\* ---------------------------------------------------------------- bounds
MaxTimeout == 4
MaxInterval == 2
MaxLatency == 1
MaxOvershoot == 1
MaxInvocations == 2
MaxAudioLen == 3

\* ------------------------------------------------------ program constants
DefaultMaxAudioLengthMs == 120000
DefaultTemperature == 10
DefaultTopk == 50
DefaultCfgScale == 15
MaxAudioLengthMs == 240000
MinAudioLengthMs == 10000
SampleRate == 48000

\* ------------------------------------------------------- optional values
Absent == <<>>
Some(v) == <<v>>
Opt(S) == {Absent} \cup {Some(v) : v \in S}
\* dict.get(key, default)
GetOr(o, default) == IF o = Absent THEN default ELSE o[1]
\* Python truthiness of dict.get(key) for a string value: None and "" are falsy
Truthy(o) == o # Absent /\ o[1] # ""
Last(s) == s[Len(s)]

VARIABLES
    \* ---- client: one call of generate() or generate_sync()
    pc,             \* "main" | "start" | "loop" (inside the while) | "done" | "exit"
    method,         \* "none" | "generate" | "generate_sync"
    timeout,        \* argument timeout
    poll_interval,  \* argument poll_interval
    now,            \* time.time()
    start_time,     \* local start_time
    submit_response,\* the /run response received (optional)
    job_id,         \* local job_id (optional)
    polls,          \* the status responses received, in order
    sync_response,  \* the /runsync response received (optional)
    log,            \* requests issued, sleeps taken, file operations done, in order
    last_request,   \* seconds the most recent HTTP request took
    last_sleep,     \* seconds the most recent time.sleep took
    outcome         \* how the call ended

clientVars == <<pc, method, timeout, poll_interval, now, start_time, submit_response, job_id,
                polls, sync_response, log, last_request, last_sleep, outcome>>

VARIABLES
    \* ---- worker process
    MODEL,            \* global MODEL: Absent (None) or the pipeline instance
    disk,             \* which model files exist under MODEL_PATH
    tmp_files,        \* temporary files that exist
    invocations,      \* jobs handed to handler() so far
    job,              \* the job being / last handled (optional)
    running,          \* a job was handed over and handler() has not returned
    events,           \* side effects of the current / last invocation, in order
    raised,           \* exception classes raised during this invocation, in order
    pipe_call,        \* arguments of the pipe(...) call of this invocation, and the
                      \* bytes it wrote to save_path (optional)
    handler_result,   \* how this invocation of handler() ended
    download_checks,  \* calls of download_models() in this process
    constructions     \* successful HeartMuLaGenPipeline.from_pretrained calls

workerVars == <<MODEL, disk, tmp_files, invocations, job, running, events, raised, pipe_call,
                handler_result, download_checks, constructions>>

VARIABLES
    \* ---- the client process around the call
    args,             \* arguments of HeartMuLaClient(api_key, endpoint_id)
    environ,          \* os.environ: RUNPOD_API_KEY, RUNPOD_ENDPOINT_ID
    self,             \* the constructed client (optional): api_key, endpoint_id
    output_file,      \* content of the file at output_path (optional: Absent = no file)
    output_file_at_start, \* what output_file was when the process started
    stderr,           \* the uncaught exception reported on the error stream (optional)
    exit_code         \* exit status of the process (optional: Absent = running)

cliVars == <<args, environ, self, output_file, output_file_at_start, stderr, exit_code>>

vars == <<clientVars, cliVars, workerVars>>

\* ---------------------------------------------------------------- base64
B64Chars ==
    <<"A","B","C","D","E","F","G","H","I","J","K","L","M","N","O","P",
      "Q","R","S","T","U","V","W","X","Y","Z","a","b","c","d","e","f",
      "g","h","i","j","k","l","m","n","o","p","q","r","s","t","u","v",
      "w","x","y","z","0","1","2","3","4","5","6","7","8","9","+","/">>
B64Char(i) == B64Chars[i + 1]

\* base64.b64encode(bytes).decode("utf-8"), as a sequence of characters
RECURSIVE B64Encode(_)
B64Encode(bytes) ==
    IF Len(bytes) = 0 THEN <<>>
    ELSE IF Len(bytes) = 1 THEN
        <<B64Char(bytes[1] \div 4), B64Char((bytes[1] % 4) * 16), "=", "=">>
    ELSE IF Len(bytes) = 2 THEN
        <<B64Char(bytes[1] \div 4),
          B64Char((bytes[1] % 4) * 16 + bytes[2] \div 16),
          B64Char((bytes[2] % 16) * 4), "=">>
    ELSE
        <<B64Char(bytes[1] \div 4),
          B64Char((bytes[1] % 4) * 16 + bytes[2] \div 16),
          B64Char((bytes[2] % 16) * 4 + bytes[3] \div 64),
          B64Char(bytes[3] % 64)>>
        \o B64Encode(SubSeq(bytes, 4, Len(bytes)))

\* mutant: the alphabet is taken to start with the lower case letters
B64Index_LowerFirst(c) == CHOOSE i \in 0..63 : B64Chars[((i + 26) % 64) + 1] = c
\* the value of a character of the alphabet
B64Index(c) == CHOOSE i \in 0..63 : B64Chars[i + 1] = c

\* base64.b64decode accepts s: whole groups of four characters, padding only at
\* the end of the last group (binascii.Error otherwise)
B64Valid(s) ==
    /\ Len(s) % 4 = 0
    /\ \A i \in 1..Len(s) : s[i] = "=" => i >= Len(s) - 1
    /\ (Len(s) > 0 /\ s[Len(s) - 1] = "=") => s[Len(s)] = "="

\* base64.b64decode(s) for a string it accepts
RECURSIVE B64Decode(_)
B64Decode(s) ==
    IF Len(s) = 0 THEN <<>>
    ELSE IF s[3] = "=" THEN
        <<B64Index(s[1]) * 4 + B64Index(s[2]) \div 16>>
    ELSE IF s[4] = "=" THEN
        <<B64Index(s[1]) * 4 + B64Index(s[2]) \div 16,
          (B64Index(s[2]) % 16) * 16 + B64Index(s[3]) \div 4>>
    ELSE
        <<B64Index(s[1]) * 4 + B64Index(s[2]) \div 16,
          (B64Index(s[2]) % 16) * 16 + B64Index(s[3]) \div 4,
          (B64Index(s[3]) % 4) * 64 + B64Index(s[4])>>
        \o B64Decode(SubSeq(s, 5, Len(s)))

\* ------------------------------------------------------ remote responses
\* The output object of a job: what the worker handler returned.
\* Keys: those of the handler's return value.
ResultDict(err, tb, b64, dur, size) ==
    [error |-> err, traceback |-> tb, audio_base64 |-> b64, duration_ms |-> dur,
     sample_rate |-> IF b64 = Absent THEN Absent ELSE Some(SampleRate),
     format |-> IF b64 = Absent THEN Absent ELSE Some("mp3"),
     size_bytes |-> size]
ErrorDict(msg, tb) == ResultDict(Some(msg), tb, Absent, Absent, Absent)
EmptyDict == ResultDict(Absent, Absent, Absent, Absent, Absent)
CleanOutput == ResultDict(Absent, Absent, Some(B64Encode(<<65, 66, 67>>)), Some(60000), Some(3))
ErrorOutput == ErrorDict("CUDA out of memory", Some("Traceback (most recent call last)"))
RejectedOutput == ErrorDict("Missing required field: 'lyrics'", Absent)
\* an output whose audio_base64 is not base64 (one character)
MalformedOutput == ResultDict(Absent, Absent, Some(<<"A">>), Some(60000), Some(1))
\* an output whose audio_base64 is the empty string
SilentOutput == ResultDict(Absent, Absent, Some(<<>>), Some(60000), Some(0))
Outputs == {CleanOutput, ErrorOutput, RejectedOutput, EmptyDict, MalformedOutput, SilentOutput}

\* Status strings the remote queue may put in a response.
StatusStrings == {"IN_QUEUE", "IN_PROGRESS", "COMPLETED", "FAILED",
                  "QUEUED", "RUNNING", "CANCELLED"}

\* transport: "ok", or what went wrong with the HTTP exchange
TransportFaults == {"network", "http_status", "bad_json"}

StatusBody(s, o, e) == [transport |-> "ok", status |-> s, output |-> o, error |-> e]
FaultBody(t) == [transport |-> t, status |-> Absent, output |-> Absent, error |-> Absent]

\* Bodies of GET /status/{id} and POST /runsync
StatusResponses ==
    {StatusBody(Some(s), Absent, Absent) : s \in StatusStrings \ {"COMPLETED", "FAILED"}}
    \cup {StatusBody(Absent, Absent, Absent)}
    \cup {StatusBody(Some("COMPLETED"), o, Absent) : o \in Opt(Outputs)}
    \cup {StatusBody(Some("FAILED"), Absent, e) : e \in Opt({"worker crashed"})}
    \cup {FaultBody(t) : t \in TransportFaults}

\* Bodies of POST /run
SubmitResponses ==
    {[transport |-> "ok", id |-> i] : i \in Opt({"abc123", ""})}
    \cup {[transport |-> t, id |-> Absent] : t \in TransportFaults}

\* ------------------------------------------------------------- outcomes
NoOutcome == [kind |-> "none", exc |-> "", msg |-> "", detail |-> Absent, value |-> Absent]
Return(v) == [kind |-> "return", exc |-> "", msg |-> "", detail |-> Absent, value |-> Some(v)]
Raise(e, m, d) == [kind |-> "raise", exc |-> e, msg |-> m, detail |-> d, value |-> Absent]
\* inside the loop: go on (sleep, then test the loop condition again)
Continue == [kind |-> "continue", exc |-> "", msg |-> "", detail |-> Absent, value |-> Absent]

\* mutant: a failed exchange is tried again
TransportError_Retried(r) == Continue
\* requests.get/post raising, response.raise_for_status(), response.json()
TransportError(r) ==
    CASE r.transport = "network" -> Raise("ConnectionError", "", Absent)
      [] r.transport = "http_status" -> Raise("HTTPError", "", Absent)
      [] r.transport = "bad_json" -> Raise("JSONDecodeError", "", Absent)

\* mutant: the error field is looked for under the wrong key
HasError_WrongKey(output) == output.traceback # Absent
\* "error" in output
HasError(output) == output.error # Absent

\* mutant: COMPLETED does not leave the loop
OnCompleted_KeepsPolling(status) == Continue
\* if job_status == "COMPLETED": the output, its error check, the return
OnCompleted(status) ==
    IF HasError(GetOr(status.output, EmptyDict))
    THEN Raise("RuntimeError", "Generation error", GetOr(status.output, EmptyDict).error)
    ELSE Return(GetOr(status.output, EmptyDict))

\* mutant: FAILED is polled again
OnFailed_Retried(status) == Continue
\* elif job_status == "FAILED"
OnFailed(status) ==
    Raise("RuntimeError", "Job failed", Some(GetOr(status.error, "Unknown error")))

\* elif job_status in ["IN_QUEUE", "IN_PROGRESS"]
IsPending(job_status) == job_status \in {Some("IN_QUEUE"), Some("IN_PROGRESS")}

\* mutant: an unknown status is taken as non-terminal
OnUnknown_KeepsPolling(job_status) == Continue
\* else: raise RuntimeError(f"Unknown status: {job_status}")
OnUnknown(job_status) == Raise("RuntimeError", "Unknown status", job_status)

\* The if/elif chain of generate's loop body on one decoded status response.
ClassifyStatus(status) ==
    IF status.status = Some("COMPLETED") THEN OnCompleted(status)
    ELSE IF status.status = Some("FAILED") THEN OnFailed(status)
    ELSE IF IsPending(status.status) THEN Continue
    ELSE OnUnknown(status.status)

\* One pass of the loop body: the GET, raise_for_status, json, classification.
PollStep(r) ==
    IF r.transport # "ok" THEN TransportError(r) ELSE ClassifyStatus(r)

\* generate_sync on its decoded /runsync response.
ClassifySync(result) ==
    IF result.status = Some("COMPLETED")
    THEN IF HasError(GetOr(result.output, EmptyDict))
         THEN Raise("RuntimeError", "Generation error", GetOr(result.output, EmptyDict).error)
         ELSE Return(GetOr(result.output, EmptyDict))
    ELSE Raise("RuntimeError", "Unexpected result", result.status)

SyncStep(r) ==
    IF r.transport # "ok" THEN TransportError(r) ELSE ClassifySync(r)

\* mutant: <= for <
LoopCondition_Inclusive(t, start, limit) == t - start <= limit
\* while time.time() - start_time < timeout
LoopCondition(t, start, limit) == t - start < limit

\* ---------------------------------------------------------------- client
ClientInitWith(T, P) ==
    /\ method = "none"
    /\ timeout \in T
    /\ poll_interval \in P
    /\ now = 0
    /\ start_time = 0
    /\ submit_response = Absent
    /\ job_id = Absent
    /\ polls = <<>>
    /\ sync_response = Absent
    /\ log = <<>>
    /\ last_request = 0
    /\ last_sleep = 0
    /\ outcome = NoOutcome

\* mutant: only a missing id is rejected, an empty one is not
MissingJobId_NoneOnly(id) == id = Absent
\* if not job_id
MissingJobId(id) == ~Truthy(id)

\* generate(), up to the loop: POST /run, raise_for_status, json, the job id check,
\* start_time = time.time()
Submit ==
    /\ pc = "start"
    /\ \E r \in SubmitResponses, d \in 0..MaxLatency :
        /\ method' = "generate"
        /\ log' = Append(log, "POST /run")
        /\ now' = now + d
        /\ last_request' = d
        /\ submit_response' = Some(r)
        /\ IF r.transport # "ok"
           THEN /\ outcome' = TransportError(r)
                /\ pc' = "done"
                /\ UNCHANGED <<job_id, start_time>>
           ELSE IF MissingJobId(r.id)
           THEN /\ outcome' = Raise("RuntimeError", "No job ID returned", r.id)
                /\ pc' = "done"
                /\ UNCHANGED <<job_id, start_time>>
           ELSE /\ job_id' = r.id
                /\ start_time' = now'
                /\ pc' = "loop"
                /\ UNCHANGED outcome
    /\ UNCHANGED <<timeout, poll_interval, polls, sync_response, last_sleep>>
    /\ UNCHANGED cliVars
    /\ UNCHANGED workerVars

\* mutant: COMPLETED counts only after IN_PROGRESS was seen
LoopBody_NeedsProgress(seen, r) ==
    IF /\ r.transport = "ok" /\ r.status = Some("COMPLETED")
       /\ ~(\E i \in DOMAIN seen : seen[i].status = Some("IN_PROGRESS"))
    THEN Continue
    ELSE PollStep(r)
\* The loop body on response r when the earlier iterations got the responses seen:
\* nothing is carried from one iteration to the next
LoopBody(seen, r) == PollStep(r)

\* mutant: the sleep is taken whatever the status
SleepsAfter_Always(step) == <<"sleep">>
\* time.sleep(poll_interval) is in the IN_QUEUE / IN_PROGRESS branch only
SleepsAfter(step) == IF step.kind = "continue" THEN <<"sleep">> ELSE <<>>

\* mutant: the sleep takes no time
SleepTime_None(interval, over) == 0
\* the time time.sleep(interval) takes: the interval, and over more
SleepTime(interval, over) == interval + over

\* mutant: a return or raise inside the loop does not leave it
AfterReturnOrRaise_StaysInLoop == "loop"
\* where a return or raise inside the loop leaves the call: ended
AfterReturnOrRaise == "done"

\* One iteration of the while loop: the condition held, GET /status/{job_id},
\* classify, and on IN_QUEUE / IN_PROGRESS time.sleep(poll_interval).
Poll ==
    /\ pc = "loop"
    /\ LoopCondition(now, start_time, timeout)
    /\ \E r \in StatusResponses, d \in 0..MaxLatency, over \in 0..MaxOvershoot :
        \E step \in {LoopBody(polls, r)} :
        /\ polls' = Append(polls, r)
        /\ last_request' = d
        /\ log' = log \o <<"GET /status">> \o SleepsAfter(step)
        /\ IF step.kind = "continue"
           THEN /\ now' = now + d + SleepTime(poll_interval, over)
                /\ last_sleep' = SleepTime(poll_interval, over)
                /\ UNCHANGED <<pc, outcome>>
           ELSE /\ over = 0
                /\ now' = now + d
                /\ outcome' = step
                /\ pc' = AfterReturnOrRaise
                /\ UNCHANGED last_sleep
    /\ UNCHANGED <<method, timeout, poll_interval, start_time, submit_response, job_id,
                   sync_response>>
    /\ UNCHANGED cliVars
    /\ UNCHANGED workerVars

\* mutant: the job is cancelled when the client gives up
RequestsOnTimeout_Cancel == <<"POST /cancel">>
\* the requests issued between the loop condition failing and the raise: none
RequestsOnTimeout == <<>>

\* The loop condition fails: raise TimeoutError
TimeOut ==
    /\ pc = "loop"
    /\ ~LoopCondition(now, start_time, timeout)
    /\ log' = log \o RequestsOnTimeout
    /\ outcome' = Raise("TimeoutError", "timed out", job_id)
    /\ pc' = "done"
    /\ UNCHANGED <<method, timeout, poll_interval, now, start_time, submit_response, job_id,
                   polls, sync_response, last_request, last_sleep>>
    /\ UNCHANGED cliVars
    /\ UNCHANGED workerVars

\* generate_sync(): POST /runsync, raise_for_status, json, classify
GenerateSync ==
    /\ pc = "start"
    /\ \E r \in StatusResponses, d \in 0..MaxLatency :
        /\ method' = "generate_sync"
        /\ log' = Append(log, "POST /runsync")
        /\ now' = now + d
        /\ last_request' = d
        /\ sync_response' = Some(r)
        /\ outcome' = SyncStep(r)
        /\ pc' = "done"
    /\ UNCHANGED <<timeout, poll_interval, start_time, submit_response, job_id, polls,
                   last_sleep>>
    /\ UNCHANGED cliVars
    /\ UNCHANGED workerVars

\* ---------------------------------------------------- client construction
\* mutant: the environment is looked at first
Resolve_EnvFirst(arg, env) == IF Truthy(env) THEN env ELSE arg
\* api_key or os.environ.get("RUNPOD_API_KEY"): a or b
Resolve(arg, env) == IF Truthy(arg) THEN arg ELSE env

\* HeartMuLaClient.__init__(api_key, endpoint_id) with os.environ = e
__init__(a, e) ==
    IF ~Truthy(Resolve(a.api_key, e.RUNPOD_API_KEY))
    THEN [self |-> Absent, exc |-> "ValueError", msg |-> "RunPod API key required"]
    ELSE IF ~Truthy(Resolve(a.endpoint_id, e.RUNPOD_ENDPOINT_ID))
    THEN [self |-> Absent, exc |-> "ValueError", msg |-> "RunPod endpoint ID required"]
    ELSE [self |-> Some([api_key |-> Resolve(a.api_key, e.RUNPOD_API_KEY)[1],
                         endpoint_id |-> Resolve(a.endpoint_id, e.RUNPOD_ENDPOINT_ID)[1]]),
          exc |-> "", msg |-> ""]

\* ------------------------------------------------------------ save_audio
\* mutant: only a missing field is rejected, an empty one is not
NoAudio_NoneOnly(audio_base64) == audio_base64 = Absent
\* if not audio_base64
NoAudio(audio_base64) == audio_base64 = Absent \/ audio_base64[1] = <<>>

\* what can go wrong with the file: open() raising, f.write() / close raising
\* after part of the data reached the file
SaveFaults == {"none", "open", "write"}

\* the bytes save_audio has to write for result (none when it raises before open)
AudioData(result) ==
    IF NoAudio(result.audio_base64) THEN <<>>
    ELSE IF ~B64Valid(result.audio_base64[1]) THEN <<>>
    ELSE B64Decode(result.audio_base64[1])

\* save_audio(result, output_path): file is the content at output_path before,
\* written the number of bytes that reached the file when the write fails
save_audio(result, file, fault, written) ==
    IF NoAudio(result.audio_base64)
    THEN [file |-> file, ops |-> <<>>, exc |-> "ValueError", msg |-> "No audio data in result"]
    ELSE IF ~B64Valid(result.audio_base64[1])
    THEN [file |-> file, ops |-> <<>>, exc |-> "binascii.Error", msg |-> "Incorrect padding"]
    ELSE IF fault = "open"
    THEN [file |-> file, ops |-> <<"open">>, exc |-> "OSError", msg |-> "Permission denied"]
    ELSE IF fault = "write"
    THEN [file |-> Some(SubSeq(B64Decode(result.audio_base64[1]), 1, written)),
          ops |-> <<"open", "write">>, exc |-> "OSError", msg |-> "No space left on device"]
    ELSE [file |-> Some(B64Decode(result.audio_base64[1])),
          ops |-> <<"open", "write">>, exc |-> "", msg |-> ""]

\* ------------------------------------------------------------------ main
\* what can end main() before the client is constructed
MainFaults == {"none", "usage", "read_lyrics"}

\* an exception leaves main(): the interpreter prints the traceback, whose last
\* line is the exception class and message, on stderr and exits with status 1
Uncaught(exc, msg) ==
    /\ stderr' = Some([exc |-> exc, msg |-> msg])
    /\ exit_code' = Some(1)
    /\ pc' = "exit"

\* main() up to the call of generate / generate_sync: parse_args, the lyrics
\* file, HeartMuLaClient(api_key=args.api_key, endpoint_id=args.endpoint_id)
Main ==
    /\ pc = "main"
    /\ \E fault \in MainFaults :
        \E c \in {__init__(args, environ)} :
        IF fault = "usage"
        THEN /\ stderr' = Some([exc |-> "SystemExit", msg |-> "usage"])
             /\ exit_code' = Some(2)
             /\ pc' = "exit"
             /\ UNCHANGED self
        ELSE IF fault = "read_lyrics"
        THEN Uncaught("OSError", "Permission denied") /\ UNCHANGED self
        ELSE IF c.exc # ""
        THEN Uncaught(c.exc, c.msg) /\ UNCHANGED self
        ELSE /\ self' = c.self
             /\ pc' = "start"
             /\ UNCHANGED <<stderr, exit_code>>
    /\ UNCHANGED <<method, timeout, poll_interval, now, start_time, submit_response, job_id,
                   polls, sync_response, log, last_request, last_sleep, outcome>>
    /\ UNCHANGED <<args, environ, output_file, output_file_at_start>>
    /\ UNCHANGED workerVars

\* generate / generate_sync raised: nothing in main() catches it
MainUncaught ==
    /\ pc = "done"
    /\ outcome.kind = "raise"
    /\ Uncaught(outcome.exc, outcome.msg)
    /\ UNCHANGED <<method, timeout, poll_interval, now, start_time, submit_response, job_id,
                   polls, sync_response, log, last_request, last_sleep, outcome>>
    /\ UNCHANGED <<args, environ, self, output_file, output_file_at_start>>
    /\ UNCHANGED workerVars

\* the rest of main() with the result in hand: the file, the exit
SaveAndExit(result) ==
    \E fault \in SaveFaults, written \in 0..MaxAudioLen :
        /\ (IF fault = "write" THEN written < Len(AudioData(result)) ELSE written = 0)
        /\ \E s \in {save_audio(result, output_file, fault, written)} :
            /\ output_file' = s.file
            /\ log' = log \o s.ops
            /\ IF s.exc # ""
               THEN Uncaught(s.exc, s.msg)
               ELSE /\ exit_code' = Some(0)
                    /\ pc' = "exit"
                    /\ UNCHANGED stderr

\* generate / generate_sync returned: client.save_audio(result, args.output),
\* print("Done!"), exit
MainSave ==
    /\ pc = "done"
    /\ outcome.kind = "return"
    /\ SaveAndExit(outcome.value[1])
    /\ UNCHANGED <<method, timeout, poll_interval, now, start_time, submit_response, job_id,
                   polls, sync_response, last_request, last_sleep, outcome>>
    /\ UNCHANGED <<args, environ, self, output_file_at_start>>
    /\ UNCHANGED workerVars

\* ---------------------------------------------------------------- worker
\* The three paths download_models() tests under MODEL_PATH
ModelFiles == {"tokenizer.json", "HeartMuLa-oss-3B", "HeartCodec-oss"}

\* job["input"]: a dict of optional keys, or null
NullInput == [null |-> TRUE]
JobInputs ==
    [lyrics : Opt({"", "la la"}),
     tags : {Absent},
     max_audio_length_ms : Opt({MinAudioLengthMs - 1, MinAudioLengthMs,
                                MaxAudioLengthMs, MaxAudioLengthMs + 1}),
     temperature : Opt({0}),
     topk : Opt({0}),
     cfg_scale : Opt({-1})]
EmptyInput ==
    [lyrics |-> Absent, tags |-> Absent, max_audio_length_ms |-> Absent,
     temperature |-> Absent, topk |-> Absent, cfg_scale |-> Absent]
Jobs == {[input |-> i] : i \in Opt(JobInputs \cup {NullInput})}

\* What the environment can make fail during one invocation (at most one step).
Faults == {"none", "hf_download_1", "hf_download_2", "hf_download_3",
           "import_torch", "import_heartlib", "from_pretrained",
           "tempfile", "pipe", "read", "remove"}

\* The bytes the pipeline writes to save_path
Bytes == {77, 255}
AudioPayloads == UNION {[1..n -> Bytes] : n \in 0..MaxAudioLen}

\* The process state a call can change, threaded through the calls.
World ==
    [MODEL |-> MODEL, disk |-> disk, tmp_files |-> tmp_files, events |-> events,
     raised |-> raised, pipe_call |-> pipe_call, download_checks |-> download_checks,
     constructions |-> constructions]
Emit(w, e) == [w EXCEPT !.events = Append(@, e)]
\* a call returning val / raising exc
Ok(w, val) == [w |-> w, exc |-> "", msg |-> "", val |-> val]
Err(w, exc, msg) ==
    [w |-> [w EXCEPT !.raised = Append(@, exc)], exc |-> exc, msg |-> msg, val |-> Absent]

\* download_models() once the paths are found missing: the three downloads
hf_downloads(w, fault) ==
    IF fault = "hf_download_1"
    THEN Err(w, "CalledProcessError", "huggingface-cli returned non-zero exit status")
    ELSE IF fault = "hf_download_2"
    THEN Err([w EXCEPT !.disk = @ \cup {"tokenizer.json"}],
             "CalledProcessError", "huggingface-cli returned non-zero exit status")
    ELSE IF fault = "hf_download_3"
    THEN Err([w EXCEPT !.disk = @ \cup {"tokenizer.json", "HeartMuLa-oss-3B"}],
             "CalledProcessError", "huggingface-cli returned non-zero exit status")
    ELSE Ok([w EXCEPT !.disk = @ \cup ModelFiles], Absent)

download_models(w, fault) ==
    IF ModelFiles \subseteq w.disk
    THEN Ok([Emit(w, "download_models") EXCEPT !.download_checks = @ + 1], Absent)
    ELSE hf_downloads([Emit(w, "download_models") EXCEPT !.download_checks = @ + 1], fault)

\* load_model() after download_models() returned or raised (d): the imports and
\* MODEL = HeartMuLaGenPipeline.from_pretrained(...)
from_pretrained(d, fault) ==
    IF d.exc # "" THEN d
    ELSE IF fault = "import_heartlib"
    THEN Err(d.w, "ImportError", "No module named 'heartlib'")
    ELSE IF fault = "from_pretrained"
    THEN Err(Emit(d.w, "from_pretrained"), "RuntimeError", "CUDA out of memory")
    ELSE Ok([Emit(d.w, "from_pretrained") EXCEPT !.constructions = @ + 1,
                                                 !.MODEL = Some(d.w.constructions + 1)],
            Some(d.w.constructions + 1))

\* mutant: the cached MODEL is never used
IsLoaded_Never(m) == FALSE
\* if MODEL is not None: return MODEL
IsLoaded(m) == m # Absent

load_model(w, fault) ==
    IF IsLoaded(w.MODEL) THEN Ok(w, w.MODEL)
    ELSE from_pretrained(download_models(w, fault), fault)

\* The try block of generate_music(): pipe(...), read the file, encode, return.
\* w is the state after NamedTemporaryFile.
pipe_and_encode(w, pipe, lyrics, tags, max_audio_length_ms, temperature, topk, cfg_scale, fault, audio) ==
    IF fault = "pipe" THEN Err(w, "RuntimeError", "generation failed")
    ELSE IF fault = "read" THEN Err(w, "OSError", "Input/output error")
    ELSE Ok(w, Some(ResultDict(Absent, Absent, Some(B64Encode(audio)),
                               Some(max_audio_length_ms), Some(Len(audio)))))

\* mutant: no finally block
finally_remove_Missing(body, fault, tmp) == body
\* The finally block of generate_music(), after the try block ended as body
finally_remove(body, fault, tmp) ==
    IF tmp \in body.w.tmp_files
    THEN IF fault = "remove"
         THEN Err(Emit(body.w, "os.remove"), "PermissionError", "Permission denied")
         ELSE [body EXCEPT !.w = [Emit(body.w, "os.remove") EXCEPT !.tmp_files = @ \ {tmp}]]
    ELSE body

\* generate_music() after load_model() returned or raised (l);
\* tmp is the name NamedTemporaryFile picks
generate_with(l, lyrics, tags, max_audio_length_ms, temperature, topk, cfg_scale, fault, audio, tmp) ==
    IF l.exc # "" THEN l
    ELSE IF fault = "tempfile" THEN Err(l.w, "OSError", "No space left on device")
    ELSE finally_remove(
            pipe_and_encode(
                [Emit(Emit(l.w, "NamedTemporaryFile"), "pipe")
                    EXCEPT !.tmp_files = @ \cup {tmp},
                           !.pipe_call =
                               Some([pipe |-> l.val, lyrics |-> lyrics, tags |-> tags,
                                     max_audio_length_ms |-> max_audio_length_ms,
                                     topk |-> topk, temperature |-> temperature,
                                     cfg_scale |-> cfg_scale, save_path |-> tmp,
                                     wrote |-> audio])],
                l.val, lyrics, tags, max_audio_length_ms, temperature, topk, cfg_scale,
                fault, audio),
            fault, tmp)

generate_music(w, lyrics, tags, max_audio_length_ms, temperature, topk, cfg_scale, fault, audio, tmp) ==
    IF fault = "import_torch"
    THEN Err(Emit(w, "generate_music"), "ImportError", "No module named 'torch'")
    ELSE generate_with(load_model(Emit(w, "generate_music"), fault), lyrics, tags, max_audio_length_ms,
                       temperature, topk, cfg_scale, fault, audio, tmp)

\* mutant: >= for >
TooLong_Inclusive(max_audio_length_ms) == max_audio_length_ms >= MaxAudioLengthMs
\* if max_audio_length_ms > 240000
TooLong(max_audio_length_ms) == max_audio_length_ms > MaxAudioLengthMs
\* if max_audio_length_ms < 10000
TooShort(max_audio_length_ms) == max_audio_length_ms < MinAudioLengthMs

\* handler() from "Validate parameters" on, with the values read from job_input
handler_validated(w, lyrics, tags, max_audio_length_ms, temperature, topk, cfg_scale, fault, audio, tmp) ==
    IF TooLong(max_audio_length_ms)
    THEN Ok(w, Some(ErrorDict("max_audio_length_ms cannot exceed 240000 (4 minutes)", Absent)))
    ELSE IF TooShort(max_audio_length_ms)
    THEN Ok(w, Some(ErrorDict("max_audio_length_ms must be at least 10000 (10 seconds)", Absent)))
    ELSE generate_music(w, lyrics, tags, max_audio_length_ms, temperature, topk, cfg_scale,
                        fault, audio, tmp)

\* mutant: only a missing key is rejected, an empty string is not
MissingLyrics_NoneOnly(lyrics) == lyrics = Absent
\* if not lyrics
MissingLyrics(lyrics) == ~Truthy(lyrics)

\* handler() from job_input.get("lyrics") on
handler_input(w, job_input, fault, audio, tmp) ==
    IF MissingLyrics(job_input.lyrics)
    THEN Ok(w, Some(ErrorDict("Missing required field: 'lyrics'", Absent)))
    ELSE handler_validated(w, job_input.lyrics[1],
                           GetOr(job_input.tags, "pop,upbeat"),
                           GetOr(job_input.max_audio_length_ms, DefaultMaxAudioLengthMs),
                           GetOr(job_input.temperature, DefaultTemperature),
                           GetOr(job_input.topk, DefaultTopk),
                           GetOr(job_input.cfg_scale, DefaultCfgScale),
                           fault, audio, tmp)

\* The try block of handler(): job_input = job.get("input", {})
handler_try(w, j, fault, audio, tmp) ==
    IF j.input = Some(NullInput)
    THEN Err(w, "AttributeError", "'NoneType' object has no attribute 'get'")
    ELSE handler_input(w, GetOr(j.input, EmptyInput), fault, audio, tmp)

\* mutant: except RuntimeError
CaughtByExceptException_RuntimeOnly(exc) == exc = "RuntimeError"
\* except Exception: the classes it catches
CaughtByExceptException(exc) ==
    exc \in {"AttributeError", "CalledProcessError", "ImportError", "RuntimeError",
             "OSError", "PermissionError"}

\* The except clause of handler(), after the try block ended as r
handler_except(r) ==
    IF r.exc = "" THEN [w |-> r.w, kind |-> "return", value |-> r.val, exc |-> ""]
    ELSE IF CaughtByExceptException(r.exc)
    THEN [w |-> r.w, kind |-> "return",
          value |-> Some(ErrorDict(r.msg, Some("Traceback (most recent call last)"))),
          exc |-> ""]
    ELSE [w |-> r.w, kind |-> "raise", value |-> Absent, exc |-> r.exc]

\* handler(job)
handler(w, j, fault, audio, tmp) == handler_except(handler_try(w, j, fault, audio, tmp))

NoResult == [kind |-> "none", value |-> Absent, exc |-> ""]

WorkerInitWith(D) ==
    /\ MODEL = Absent
    /\ disk \in D
    /\ tmp_files = {}
    /\ invocations = 0
    /\ job = Absent
    /\ running = FALSE
    /\ events = <<>>
    /\ raised = <<>>
    /\ pipe_call = Absent
    /\ handler_result = NoResult
    /\ download_checks = 0
    /\ constructions = 0

\* The serverless runtime takes a job off the queue and calls handler(job).
Deliver ==
    /\ ~running
    /\ invocations < MaxInvocations
    /\ \E j \in Jobs : job' = Some(j)
    /\ running' = TRUE
    /\ invocations' = invocations + 1
    /\ events' = <<>>
    /\ raised' = <<>>
    /\ pipe_call' = Absent
    /\ handler_result' = NoResult
    /\ UNCHANGED <<MODEL, disk, tmp_files, download_checks, constructions>>
    \* the client that submitted this job: its call is pending, its output file
    \* is as it was
    /\ pc' = "loop"
    /\ outcome' = NoOutcome
    /\ log' = <<>>
    /\ output_file' = output_file_at_start
    /\ stderr' = Absent
    /\ exit_code' = Absent
    /\ UNCHANGED <<method, timeout, poll_interval, now, start_time, submit_response, job_id,
                   polls, sync_response, last_request, last_sleep>>
    /\ UNCHANGED <<args, environ, self, output_file_at_start>>

\* handler(job) runs to its return.
Handler ==
    /\ running
    /\ \E fault \in Faults, audio \in AudioPayloads :
        /\ fault # "none" => audio = <<>>
        /\ \E h \in {handler(World, job[1], fault, audio, invocations)} :
            /\ MODEL' = h.w.MODEL
            /\ disk' = h.w.disk
            /\ tmp_files' = h.w.tmp_files
            /\ events' = h.w.events
            /\ raised' = h.w.raised
            /\ pipe_call' = h.w.pipe_call
            /\ download_checks' = h.w.download_checks
            /\ constructions' = h.w.constructions
            /\ handler_result' = [kind |-> h.kind, value |-> h.value, exc |-> h.exc]
    /\ running' = FALSE
    /\ UNCHANGED <<invocations, job>>
    /\ UNCHANGED clientVars
    /\ UNCHANGED cliVars

\* The client that submitted the job gets the handler's return value as the output
\* of a COMPLETED response: without an error field generate returns it, and main()
\* saves it; with an error field generate raises, and main() ends on that.
ClientGetsOutput ==
    /\ ~running
    /\ pc = "loop"
    /\ handler_result.kind = "return"
    /\ \E step \in {OnCompleted(StatusBody(Some("COMPLETED"), handler_result.value, Absent))} :
        /\ outcome' = step
        /\ IF step.kind = "return"
           THEN SaveAndExit(step.value[1])
           ELSE Uncaught(step.exc, step.msg) /\ UNCHANGED <<log, output_file>>
    /\ UNCHANGED <<method, timeout, poll_interval, now, start_time, submit_response, job_id,
                   polls, sync_response, last_request, last_sleep>>
    /\ UNCHANGED <<args, environ, self, output_file_at_start>>
    /\ UNCHANGED workerVars

\* ------------------------------------------------------- specifications
\* the arguments and environment of a process, the output file it finds
Credentials(K) == [api_key : Opt(K), endpoint_id : Opt(K)]
Environments(K) == [RUNPOD_API_KEY : Opt(K), RUNPOD_ENDPOINT_ID : Opt(K)]
OldFile == <<1, 2, 3, 4>>

ProcessInitWith(A, E, F) ==
    /\ args \in A
    /\ environ \in E
    /\ output_file \in F
    /\ output_file_at_start = output_file
    /\ stderr = Absent
    /\ exit_code = Absent

\* a client constructed with both arguments given
Constructed ==
    /\ ProcessInitWith({[api_key |-> Some("arg"), endpoint_id |-> Some("arg")]},
                       {[RUNPOD_API_KEY |-> Absent, RUNPOD_ENDPOINT_ID |-> Absent]},
                       {Absent, Some(OldFile)})
    /\ self = __init__(args, environ).self

Init ==
    /\ pc = "start"
    /\ ClientInitWith(0..MaxTimeout, 1..MaxInterval)
    /\ Constructed
    /\ output_file = Absent
    /\ WorkerInitWith({{}})

Next == Submit \/ Poll \/ TimeOut \/ GenerateSync

Spec == Init /\ [][Next]_vars

WorkerInit ==
    /\ pc = "start"
    /\ ClientInitWith({MaxTimeout}, {1})
    /\ Constructed
    /\ WorkerInitWith({{}, ModelFiles})

WorkerNext == Deliver \/ Handler \/ ClientGetsOutput

WorkerSpec == WorkerInit /\ [][WorkerNext]_vars

CliInit ==
    /\ pc = "main"
    /\ ClientInitWith({2}, {1})
    /\ ProcessInitWith(Credentials({"", "arg"}), Environments({"", "env"}),
                       {Absent, Some(OldFile)})
    /\ self = Absent
    /\ WorkerInitWith({{}})

CliNext == Main \/ Submit \/ Poll \/ TimeOut \/ GenerateSync \/ MainUncaught \/ MainSave

CliSpec == CliInit /\ [][CliNext]_vars

\* The call keeps executing: every HTTP call returns and every sleep returns, so a
\* step that can be taken is taken.
LiveSpec == Init /\ [][Next]_vars /\ WF_vars(Next)

\* ======================================================= client properties
Elapsed == now - start_time
NumGets == Cardinality({i \in DOMAIN log : log[i] = "GET /status"})
StatusesSeen == [i \in DOMAIN polls |-> polls[i].status]
\* the last poll got a decoded body with this status
LastPollIs(s) == polls # <<>> /\ Last(polls).transport = "ok" /\ Last(polls).status = Some(s)
\* every poll but the last reported one of the statuses in S
EarlierPollsIn(S) ==
    \A i \in 1..(Len(polls) - 1) : polls[i].transport = "ok" /\ polls[i].status \in S
\* every poll reported one of the statuses in S
AllPollsIn(S) ==
    \A i \in DOMAIN polls : polls[i].transport = "ok" /\ polls[i].status \in S
OutputOf(r) == IF r.output = Absent THEN EmptyDict ELSE r.output[1]

\* C1 as stated, with the status names of the claim: a poll reporting QUEUED or
\* RUNNING is non-terminal, so the call does not end at it (only the timeout can end
\* the call after it), and a COMPLETED poll after a run of non-terminal statuses
\* ends the call by returning that response's output.
C1_AsStated ==
    /\ (pc = "done" /\ polls # <<>> /\ Last(polls).transport = "ok"
            /\ Last(polls).status \in {Some("QUEUED"), Some("RUNNING")})
        => outcome.exc = "TimeoutError"
    /\ (pc = "done" /\ LastPollIs("COMPLETED"))
        => outcome = Return(OutputOf(Last(polls)))

\* C1 (amended): when the polls of generate report a finite run of IN_QUEUE /
\* IN_PROGRESS followed by COMPLETED with an output that has no error field, the
\* call has ended, it returned that response's output, and the last thing the client
\* did was the status request that got COMPLETED: one request per response, none
\* after it. In particular [IN_QUEUE, IN_QUEUE, IN_PROGRESS, COMPLETED] is four polls.
C1_CompletedReturnsAndStopsPolling ==
    (/\ LastPollIs("COMPLETED")
     /\ OutputOf(Last(polls)).error = Absent
     /\ EarlierPollsIn({Some("IN_QUEUE"), Some("IN_PROGRESS")}))
    => /\ pc = "done"
       /\ outcome = Return(OutputOf(Last(polls)))
       /\ NumGets = Len(polls)
       /\ Last(log) = "GET /status"
       /\ (StatusesSeen = <<Some("IN_QUEUE"), Some("IN_QUEUE"), Some("IN_PROGRESS"),
                            Some("COMPLETED")>> => NumGets = 4)

\* C1 witness: the sequence [IN_QUEUE, IN_QUEUE, IN_PROGRESS, COMPLETED] was polled
\* and the call returned the audio output.
C1_Witness ==
    /\ StatusesSeen = <<Some("IN_QUEUE"), Some("IN_QUEUE"), Some("IN_PROGRESS"),
                        Some("COMPLETED")>>
    /\ pc = "done"
    /\ outcome = Return(CleanOutput)

\* C2 as stated: with timeout > 0, when every poll reported a non-terminal status,
\* generate ends with TimeoutError at an elapsed time in
\* [timeout, timeout + poll_interval).
C2_AsStated ==
    (/\ pc = "done" /\ method = "generate" /\ job_id # Absent /\ timeout > 0
     /\ AllPollsIn({Some("IN_QUEUE"), Some("IN_PROGRESS")}))
    => /\ outcome.exc = "TimeoutError"
       /\ Elapsed >= timeout
       /\ Elapsed < timeout + poll_interval

\* C2 (amended): with timeout > 0, when every poll reported IN_QUEUE or IN_PROGRESS,
\* generate ends with TimeoutError, at least one poll was made, and the elapsed
\* time then is >= timeout and < timeout + the time the last status request took
\* + the time the last sleep took (which is at least poll_interval).
C2_TimeoutWindow ==
    (/\ pc = "done" /\ method = "generate" /\ job_id # Absent /\ timeout > 0
     /\ AllPollsIn({Some("IN_QUEUE"), Some("IN_PROGRESS")}))
    => /\ outcome.exc = "TimeoutError"
       /\ polls # <<>>
       /\ Elapsed >= timeout
       /\ last_sleep >= poll_interval
       /\ Elapsed < timeout + last_request + last_sleep

\* C2 witness: a call timed out later than timeout + poll_interval after the
\* submission, because the last status request took time.
C2_Witness ==
    /\ pc = "done" /\ outcome.exc = "TimeoutError" /\ timeout > 0
    /\ last_request > 0
    /\ Elapsed >= timeout + poll_interval

\* C3: in generate and in generate_sync, a COMPLETED response whose output has an
\* error field ends the call by raising the generation error that carries that
\* error; and no call ever returns an output that has an error field.
C3_ErrorOutputIsRaised ==
    /\ (method = "generate" /\ LastPollIs("COMPLETED")
            /\ OutputOf(Last(polls)).error # Absent)
        => /\ pc = "done"
           /\ outcome = Raise("RuntimeError", "Generation error",
                              OutputOf(Last(polls)).error)
    /\ (sync_response # Absent /\ sync_response[1].transport = "ok"
            /\ sync_response[1].status = Some("COMPLETED")
            /\ OutputOf(sync_response[1]).error # Absent)
        => /\ pc = "done"
           /\ outcome = Raise("RuntimeError", "Generation error",
                              OutputOf(sync_response[1]).error)
    /\ outcome.kind = "return" => outcome.value[1].error = Absent

\* C3 witness: generate_sync got COMPLETED with the worker's validation error as
\* output (an error field and no traceback) and raised.
C3_Witness ==
    /\ method = "generate_sync"
    /\ sync_response = Some(StatusBody(Some("COMPLETED"), Some(RejectedOutput), Absent))
    /\ outcome.kind = "raise"

\* C4: a poll that reports FAILED is the last poll: the call has ended by raising
\* the job failure, nothing was returned, and the last thing the client did was that
\* status request, whatever was polled before.
C4_FailedIsTerminal ==
    \A i \in DOMAIN polls :
        (polls[i].transport = "ok" /\ polls[i].status = Some("FAILED"))
        => /\ i = Len(polls)
           /\ pc = "done"
           /\ outcome = Raise("RuntimeError", "Job failed",
                              Some(IF polls[i].error = Absent THEN "Unknown error"
                                   ELSE polls[i].error[1]))
           /\ NumGets = Len(polls)
           /\ Last(log) = "GET /status"

\* C4 witness: FAILED came after two non-terminal polls.
C4_Witness ==
    /\ Len(polls) = 3 /\ LastPollIs("FAILED")
    /\ outcome.kind = "raise" /\ outcome.msg = "Job failed"

\* C5: a poll that reports a status other than COMPLETED, FAILED, IN_QUEUE and
\* IN_PROGRESS (or no status) is the last poll: the call has ended by raising the
\* unknown-status error, and the last thing the client did was that status request:
\* no sleep and no request after it.
C5_UnknownStatusAborts ==
    \A i \in DOMAIN polls :
        (/\ polls[i].transport = "ok"
         /\ polls[i].status \notin {Some("COMPLETED"), Some("FAILED"),
                                    Some("IN_QUEUE"), Some("IN_PROGRESS")})
        => /\ i = Len(polls)
           /\ pc = "done"
           /\ outcome = Raise("RuntimeError", "Unknown status", polls[i].status)
           /\ NumGets = Len(polls)
           /\ Last(log) = "GET /status"

\* C5 witness: an unknown status after a non-terminal poll ended the call while time
\* was left before the timeout.
C5_Witness ==
    /\ Len(polls) = 2 /\ LastPollIs("CANCELLED")
    /\ pc = "done" /\ outcome.msg = "Unknown status"
    /\ Elapsed < timeout

\* ======================================================= worker properties
\* an invocation of handler() has ended
Handled == job # Absent /\ ~running
\* the job's input object is a dict (not missing, not null)
HasInputDict == job # Absent /\ job[1].input # Absent /\ job[1].input[1] # NullInput
JobInput == job[1].input[1]
\* handler() returned an object with an error field
ReturnedError ==
    /\ handler_result.kind = "return"
    /\ handler_result.value # Absent
    /\ handler_result.value[1].error # Absent
    /\ handler_result.value[1].audio_base64 = Absent
\* handler() returned an object of the result shape
ReturnedAudio ==
    /\ handler_result.kind = "return"
    /\ handler_result.value # Absent
    /\ handler_result.value[1].error = Absent
    /\ handler_result.value[1].audio_base64 # Absent
    /\ handler_result.value[1].size_bytes # Absent
\* the invocation touched nothing: no model initialization, no temp file, no generation
NoSideEffects == events = <<>> /\ pipe_call = Absent /\ raised = <<>>
LyricsGiven == JobInput.lyrics # Absent /\ JobInput.lyrics[1] # ""

\* C6: a handled job with non-empty lyrics and max_audio_length_ms absent (the
\* default) or in [10000, 240000] passed validation: generate_music was called, and
\* when nothing failed in it the pipeline was called with that length and an audio
\* result came back. A handled job with max_audio_length_ms below 10000 or above
\* 240000 got an error object, with no model initialization and no generation call.
C6_LengthValidation ==
    /\ (/\ Handled /\ HasInputDict /\ LyricsGiven
        /\ \/ JobInput.max_audio_length_ms = Absent
           \/ /\ JobInput.max_audio_length_ms # Absent
              /\ JobInput.max_audio_length_ms[1] >= 10000
              /\ JobInput.max_audio_length_ms[1] <= 240000)
       => (/\ events # <<>>
           /\ events[1] = "generate_music"
           /\ (raised = <<>> =>
                (/\ ReturnedAudio
                 /\ pipe_call # Absent
                 /\ pipe_call[1].max_audio_length_ms =
                      (IF JobInput.max_audio_length_ms = Absent THEN 120000
                       ELSE JobInput.max_audio_length_ms[1]))))
    /\ (/\ Handled /\ HasInputDict
        /\ JobInput.max_audio_length_ms # Absent
        /\ \/ JobInput.max_audio_length_ms[1] < 10000
           \/ JobInput.max_audio_length_ms[1] > 240000)
       => (/\ ReturnedError
           /\ handler_result.value[1].traceback = Absent
           /\ NoSideEffects)

\* C6 witness: a job with max_audio_length_ms 240000, the upper end of the range, went
\* through generation and got its audio result.
C6_Witness ==
    /\ Handled /\ HasInputDict /\ LyricsGiven
    /\ JobInput.max_audio_length_ms = Some(240000)
    /\ ReturnedAudio
    /\ pipe_call # Absent /\ pipe_call[1].max_audio_length_ms = 240000

\* C7 as stated: a handled job with temperature <= 0, topk <= 0 or cfg_scale < 0
\* got an error object, with no model initialization and no generation call.
C7_AsStated ==
    (/\ Handled /\ HasInputDict
     /\ \/ (JobInput.temperature # Absent /\ JobInput.temperature[1] <= 0)
        \/ (JobInput.topk # Absent /\ JobInput.topk[1] <= 0)
        \/ (JobInput.cfg_scale # Absent /\ JobInput.cfg_scale[1] < 0))
    => /\ ReturnedError
       /\ NoSideEffects

\* C8: a handled job whose input object is missing, or whose lyrics are missing or
\* empty, got the error object for the missing lyrics as the return value, with no
\* model initialization, no temp file and no generation call.
C8_MissingLyricsRejected ==
    (/\ Handled
     /\ \/ job[1].input = Absent
        \/ (HasInputDict /\ ~LyricsGiven))
    => /\ handler_result =
            [kind |-> "return", exc |-> "",
             value |-> Some(ErrorDict("Missing required field: 'lyrics'", Absent))]
       /\ NoSideEffects

\* C8 witness: a job with empty lyrics and an otherwise valid length was rejected in
\* a process whose model is not loaded.
C8_Witness ==
    /\ Handled /\ HasInputDict
    /\ JobInput.lyrics = Some("")
    /\ JobInput.max_audio_length_ms = Some(10000)
    /\ ReturnedError /\ events = <<>>

\* C9: every invocation of handler() that has ended returned an object, either of
\* the result shape or with an error field; and when anything raised during it
\* (download, imports, model construction, temp file, generation, reading, cleanup,
\* a null input) the object returned has the error and a traceback.
C9_NoExceptionEscapes ==
    Handled =>
        (/\ handler_result.kind = "return"
         /\ (ReturnedAudio \/ ReturnedError)
         /\ (raised # <<>> =>
                (ReturnedError /\ handler_result.value[1].traceback # Absent))
         /\ (raised = <<>> /\ ReturnedError => events = <<>>))

\* C9 witness: the download of the model weights failed and the handler returned an
\* error object with a traceback.
C9_Witness ==
    /\ Handled
    /\ raised = <<"CalledProcessError">>
    /\ ReturnedError /\ handler_result.value[1].traceback # Absent

\* C10 as stated: in one worker process the initialization (download check, model
\* construction) runs exactly once: never a second download check, never a second
\* construction attempt.
C10_AsStated ==
    /\ download_checks <= 1
    /\ constructions <= 1

\* C10 (amended): in one worker process the pipeline is successfully constructed at
\* most once; and once MODEL is set, nothing changes it, and every later invocation
\* (a step taken while handler() is running) runs no download check and no
\* construction, and a pipeline call it makes is on that same instance.
C10_InitializedOnce ==
    /\ [](constructions <= 1)
    /\ [][MODEL # Absent =>
            (/\ MODEL' = MODEL
             /\ download_checks' = download_checks
             /\ constructions' = constructions
             /\ (running =>
                  (/\ \A i \in DOMAIN events' :
                        events'[i] \notin {"download_models", "from_pretrained"}
                   /\ (pipe_call' # Absent => pipe_call'[1].pipe = MODEL))))]_vars

\* C10 witness: two invocations in a row, both reaching generation: the second
\* one generated with the instance the first one constructed, without a download
\* check or a construction of its own.
C10_Witness ==
    /\ Handled /\ invocations = 2
    /\ constructions = 1 /\ download_checks = 1
    /\ MODEL = Some(1)
    /\ ReturnedAudio
    /\ events = <<"generate_music", "NamedTemporaryFile", "pipe", "os.remove">>
    /\ pipe_call # Absent /\ pipe_call[1].pipe = Some(1)

Exited == pc = "exit"
\* save_audio was called with this result
SavedResult == outcome.value[1]
FileOps == {i \in DOMAIN log : log[i] \in {"open", "write"}}
\* the job ended COMPLETED with an output that has no error field
CompletedClean ==
    \/ (method = "generate" /\ LastPollIs("COMPLETED")
            /\ OutputOf(Last(polls)).error = Absent)
    \/ (method = "generate_sync" /\ sync_response # Absent
            /\ sync_response[1].transport = "ok"
            /\ sync_response[1].status = Some("COMPLETED")
            /\ OutputOf(sync_response[1]).error = Absent)

\* C12 as stated: when save_audio failed after its write had begun, the file at the
\* destination path holds what it held before the call or the complete decoded
\* payload.
C12_AsStated ==
    (/\ Exited /\ outcome.kind = "return" /\ stderr # Absent
     /\ FileOps # {} /\ Last(log) = "write")
    => \/ output_file = output_file_at_start
       \/ output_file = Some(B64Decode(SavedResult.audio_base64[1]))

\* C13: when the result handed to save_audio has no audio_base64 field or an empty
\* one, save_audio raised ValueError (the process exits 1 with it on stderr), and the
\* destination is as it was: no open, no write, the same content or still no file.
C13_NoAudioRejected ==
    (/\ Exited /\ outcome.kind = "return"
     /\ \/ SavedResult.audio_base64 = Absent
        \/ SavedResult.audio_base64 = Some(<<>>))
    => /\ stderr = Some([exc |-> "ValueError", msg |-> "No audio data in result"])
       /\ exit_code = Some(1)
       /\ FileOps = {}
       /\ output_file = output_file_at_start

\* C13 witness: a result with an empty audio_base64 was rejected and the file that
\* was at the destination is still there with its content.
C13_Witness ==
    /\ Exited
    /\ outcome = Return(SilentOutput)
    /\ stderr # Absent /\ stderr[1].exc = "ValueError"
    /\ output_file = Some(OldFile)

\* ======================================================== end to end
\* the handler returned audio and the client that submitted the job is done with it
SavedHandlerOutput == Handled /\ Exited /\ ReturnedAudio /\ pipe_call # Absent
\* the bytes the pipeline wrote to the temporary file
Produced == pipe_call[1].wrote
FileFaulted == stderr # Absent /\ stderr[1].exc = "OSError"

\* C14 as stated: for every byte sequence the pipeline wrote, once the client has
\* saved the handler's output (no failure of the file system), the destination file
\* holds exactly those bytes and size_bytes is their number.
C14_AsStated ==
    (SavedHandlerOutput /\ ~FileFaulted)
    => /\ output_file = Some(Produced)
       /\ handler_result.value[1].size_bytes = Some(Len(output_file[1]))

\* C14 (amended): for every non-empty byte sequence the pipeline wrote, once the
\* client has saved the handler's output (no failure of the file system), save_audio
\* succeeded, the destination file holds exactly those bytes and size_bytes is their
\* number. For the empty byte sequence the handler reports size_bytes 0 with an
\* empty audio_base64, save_audio raises ValueError and the destination is as it was.
C14_RoundTrip ==
    /\ (SavedHandlerOutput /\ ~FileFaulted /\ Produced # <<>>)
       => (/\ exit_code = Some(0)
           /\ output_file = Some(Produced)
           /\ handler_result.value[1].size_bytes = Some(Len(output_file[1])))
    /\ (SavedHandlerOutput /\ Produced = <<>>)
       => (/\ handler_result.value[1].size_bytes = Some(0)
           /\ stderr # Absent /\ stderr[1].exc = "ValueError"
           /\ output_file = output_file_at_start)

\* C14 witness: three bytes, the last of them 255, went through the handler's
\* encoding and the client's decoding and replaced the file that was at the
\* destination.
C14_Witness ==
    /\ SavedHandlerOutput
    /\ Produced = <<77, 255, 255>>
    /\ output_file_at_start = Some(OldFile)
    /\ output_file = Some(<<77, 255, 255>>)
    /\ handler_result.value[1].size_bytes = Some(3)
    /\ exit_code = Some(0)

\* ======================================================= client properties
\* the class of the way a call ended, by what the caller can tell apart
OutcomeClass(o) ==
    CASE o.kind = "return" -> "output returned"
      [] o.kind = "continue" -> "not ended"
      [] o.kind = "raise" /\ o.msg = "Generation error" -> "domain error"
      [] o.kind = "raise" /\ o.msg = "Job failed" -> "job failure"
      [] o.kind = "raise" /\ o.msg \in {"Unknown status", "Unexpected result",
                                        "No job ID returned"} -> "protocol error"
      [] o.kind = "raise" /\ o.exc = "TimeoutError" -> "timed out"
      [] OTHER -> "transport error"

\* C15 as stated: generate_sync ended on its response in the same outcome class as
\* generate ends on a poll with that response (for the responses on which generate
\* ends).
C15_AsStated ==
    (/\ method = "generate_sync" /\ pc = "done"
     /\ OutcomeClass(PollStep(sync_response[1])) # "not ended")
    => OutcomeClass(outcome) = OutcomeClass(PollStep(sync_response[1]))

\* C16: when the /run response was decoded and has no id or an empty one, generate
\* has ended by raising the missing-job-id error, and the submission is the only
\* thing it did: no status request, no sleep; and a job that is polled has an id.
C16_NoJobIdNoPolls ==
    /\ (/\ submit_response # Absent /\ submit_response[1].transport = "ok"
        /\ submit_response[1].id \in {Absent, Some("")})
       => (/\ pc = "done"
           /\ outcome = Raise("RuntimeError", "No job ID returned", submit_response[1].id)
           /\ job_id = Absent
           /\ polls = <<>>
           /\ log = <<"POST /run">>)
    /\ (polls # <<>> => (job_id # Absent /\ job_id[1] # ""))

\* C16 witness: the queue answered the submission with an empty id.
C16_Witness ==
    /\ submit_response = Some([transport |-> "ok", id |-> Some("")])
    /\ pc = "done" /\ outcome.msg = "No job ID returned"
    /\ log = <<"POST /run">>

NumPosts == Cardinality({i \in DOMAIN log : log[i] = "POST /run"})
\* the exception of a failed exchange
ExcOf(transport) ==
    CASE transport = "network" -> "ConnectionError"
      [] transport = "http_status" -> "HTTPError"
      [] transport = "bad_json" -> "JSONDecodeError"

\* C17: a call of generate issues exactly one submit request; a submission that
\* failed at transport level ended the call with that error and nothing else was
\* requested; a status request that failed at transport level is the last thing the
\* call did: it ended with that error, one request per response received.
C17_NoRetries ==
    /\ (method = "generate" => NumPosts = 1)
    /\ (submit_response # Absent /\ submit_response[1].transport # "ok")
       => (/\ pc = "done"
           /\ outcome = Raise(ExcOf(submit_response[1].transport), "", Absent)
           /\ log = <<"POST /run">>
           /\ polls = <<>>)
    /\ \A i \in DOMAIN polls :
         polls[i].transport # "ok"
         => (/\ i = Len(polls)
             /\ pc = "done"
             /\ outcome = Raise(ExcOf(polls[i].transport), "", Absent)
             /\ NumGets = Len(polls)
             /\ NumPosts = 1
             /\ Last(log) = "GET /status")

\* C17 witness: the third status request got a body that is not JSON and the call
\* ended on it.
C17_Witness ==
    /\ Len(polls) = 3 /\ Last(polls).transport = "bad_json"
    /\ pc = "done" /\ outcome.exc = "JSONDecodeError"
    /\ Len(log) = 6

\* C18: when generate ended with the timeout error, everything the client sent is
\* the submission and one status request per response received, each followed by its
\* sleep: no cancel and no other request, and nothing after the last sleep.
C18_NoCancelOnTimeout ==
    (outcome.exc = "TimeoutError")
    => (/\ pc = "done"
        /\ Len(log) = 1 + 2 * Len(polls)
        /\ log[1] = "POST /run"
        /\ \A i \in 1..Len(polls) :
              log[2 * i] = "GET /status" /\ log[2 * i + 1] = "sleep"
        /\ AllPollsIn({Some("IN_QUEUE"), Some("IN_PROGRESS")}))

\* C18 witness: the call timed out after two polls of a job that was still running.
C18_Witness ==
    /\ outcome.exc = "TimeoutError"
    /\ Len(polls) = 2 /\ LastPollIs("IN_PROGRESS")
    /\ log = <<"POST /run", "GET /status", "sleep", "GET /status", "sleep">>

\* ================================================== command line properties
\* a value that counts as given: not None and not the empty string
Given(o) == o # Absent /\ o[1] # ""
\* main() got as far as constructing the client
TriedConstruction ==
    pc # "main" /\ ~(stderr # Absent /\ stderr[1].exc \in {"SystemExit", "OSError"}
                        /\ self = Absent)

\* C19: the API key and the endpoint id the client holds are the argument when it
\* was given (not None, not empty) and the environment variable otherwise; when the
\* construction found one of them in neither place it raised ValueError, no client
\* exists, the process has exited and no request was sent; and it raised only then.
C19_CredentialResolution ==
    /\ (self # Absent =>
          (/\ self[1].api_key = (IF Given(args.api_key) THEN args.api_key[1]
                                  ELSE environ.RUNPOD_API_KEY[1])
           /\ self[1].endpoint_id = (IF Given(args.endpoint_id) THEN args.endpoint_id[1]
                                      ELSE environ.RUNPOD_ENDPOINT_ID[1])
           /\ self[1].api_key # "" /\ self[1].endpoint_id # ""))
    /\ (TriedConstruction =>
          ((\/ ~(Given(args.api_key) \/ Given(environ.RUNPOD_API_KEY))
            \/ ~(Given(args.endpoint_id) \/ Given(environ.RUNPOD_ENDPOINT_ID)))
           <=> (/\ self = Absent
                /\ Exited
                /\ stderr # Absent /\ stderr[1].exc = "ValueError"
                /\ exit_code = Some(1)
                /\ log = <<>>)))
    /\ (log # <<>> => self # Absent)

\* C19 witness: the key came from the environment because the argument was empty,
\* the endpoint id from the argument although the environment had one, and the
\* client went on to send a request.
C19_Witness ==
    /\ args = [api_key |-> Some(""), endpoint_id |-> Some("arg")]
    /\ environ = [RUNPOD_API_KEY |-> Some("env"), RUNPOD_ENDPOINT_ID |-> Some("env")]
    /\ self = Some([api_key |-> "env", endpoint_id |-> "arg"])
    /\ log # <<>>

\* C20 as stated: a run in which generate, generate_sync or save_audio raised exits
\* non-zero with that exception on the error stream; the output file is changed only
\* when the job ended COMPLETED with an output that has no error field; and no run
\* that ends in an error has created or modified the output file.
C20_AsStated ==
    /\ (Exited /\ outcome.kind = "raise")
       => (/\ exit_code = Some(1)
           /\ stderr = Some([exc |-> outcome.exc, msg |-> outcome.msg]))
    /\ (Exited /\ exit_code = Some(0)) => (stderr = Absent /\ outcome.kind = "return")
    /\ (output_file # output_file_at_start) => CompletedClean
    /\ (Exited /\ exit_code # Some(0)) => output_file = output_file_at_start

\* ======================================================= client properties
\* generate has ended with a terminal outcome
Ended == outcome.kind \in {"return", "raise"}

\* C21: a call of generate has ended exactly when it has its one outcome, which is an
\* output returned or an error raised (job failure, generation error, unknown status,
\* transport error, timeout); and once it has the outcome nothing changes it: no
\* status request and no sleep is added, the responses polled stay as they are, the
\* call is not back in its loop, whatever the process does next.
C21_TerminalOutcomeAbsorbing ==
    /\ [](method = "generate" =>
            (/\ outcome.kind \in {"none", "return", "raise"}
             /\ (Ended <=> pc \in {"done", "exit"})
             /\ (~Ended <=> pc = "loop")))
    /\ [][(method = "generate" /\ Ended) =>
            (/\ outcome' = outcome
             /\ polls' = polls
             /\ pc' \in {"done", "exit"}
             /\ SubSeq(log', 1, Len(log)) = log
             /\ \A i \in DOMAIN log' : i > Len(log) => log'[i] \in {"open", "write"})]_vars

\* C21 witness: generate returned the output of the second poll, main() went on to
\* save it and exit, and the outcome and the polls are what they were.
C21_Witness ==
    /\ method = "generate" /\ pc = "exit"
    /\ outcome = Return(CleanOutput)
    /\ Len(polls) = 2 /\ LastPollIs("COMPLETED")
    /\ log = <<"POST /run", "GET /status", "sleep", "GET /status", "open", "write">>
    /\ exit_code = Some(0)

\* C22 as stated, with the status names of the claim: how the call ends on a poll
\* depends on that poll alone; a first poll reporting COMPLETED ends the call with
\* the output returned; and a poll reporting QUEUED is an intermediate state, so the
\* call does not end on it and a COMPLETED poll may follow it.
C22_AsStated ==
    /\ (pc = "done" /\ polls # <<>> /\ outcome.exc # "TimeoutError")
       => outcome = PollStep(Last(polls))
    /\ (Len(polls) = 1 /\ LastPollIs("COMPLETED") /\ OutputOf(polls[1]).error = Absent)
       => outcome = Return(OutputOf(polls[1]))
    /\ (LastPollIs("QUEUED") /\ pc = "done") => outcome.exc = "TimeoutError"

\* C22 (amended): how the call ends on a poll depends on that poll alone, not on the
\* polls before it; a poll reporting COMPLETED with an output that has no error field
\* ends the call with that output returned, whether it is the first poll or follows
\* IN_QUEUE polls only (IN_PROGRESS never seen) or any other run of IN_QUEUE /
\* IN_PROGRESS polls.
C22_SkippedStatesTolerated ==
    /\ (pc = "done" /\ polls # <<>> /\ outcome.exc # "TimeoutError")
       => outcome = PollStep(Last(polls))
    /\ \A i \in DOMAIN polls :
         (/\ polls[i].transport = "ok" /\ polls[i].status = Some("COMPLETED")
          /\ OutputOf(polls[i]).error = Absent)
         => (/\ i = Len(polls)
             /\ pc = "done"
             /\ outcome = Return(OutputOf(polls[i])))

\* C22 witness: IN_QUEUE, then COMPLETED, IN_PROGRESS never seen: the output was
\* returned.
C22_Witness ==
    /\ StatusesSeen = <<Some("IN_QUEUE"), Some("COMPLETED")>>
    /\ pc = "done"
    /\ outcome = Return(CleanOutput)

NumSleeps == Cardinality({i \in DOMAIN log : log[i] = "sleep"})

\* C23: in a call of generate the submission is followed at once by the first status
\* request, with no sleep before it; every status request but the last is followed by
\* exactly one sleep and then the next status request; the last one is followed by a
\* sleep exactly when it reported IN_QUEUE or IN_PROGRESS (then the timeout ends the
\* call), never when it reported COMPLETED, FAILED or an unrecognized status; and a
\* sleep takes at least poll_interval (time.sleep(poll_interval) returning late by at
\* most the overshoot).
C23_FixedIntervalPolling ==
    (method = "generate" /\ submit_response # Absent)
    => (/\ log[1] = "POST /run"
        /\ NumGets = Len(polls)
        /\ \A i \in 1..Len(polls) : log[2 * i] = "GET /status"
        /\ \A i \in 1..(Len(polls) - 1) : log[2 * i + 1] = "sleep"
        /\ (polls # <<>> =>
              IF Last(polls).transport = "ok"
                   /\ Last(polls).status \in {Some("IN_QUEUE"), Some("IN_PROGRESS")}
              THEN /\ log = SubSeq(log, 1, 2 * Len(polls)) \o <<"sleep">>
                   /\ NumSleeps = Len(polls)
                   /\ last_sleep >= poll_interval
                   /\ last_sleep <= poll_interval + MaxOvershoot
              ELSE /\ Len(log) = 2 * Len(polls)
                   /\ NumSleeps = Len(polls) - 1
                   /\ pc = "done")
        /\ (polls = <<>> => log = <<"POST /run">>))

\* C23 witness: three polls, a sleep after each of the first two, none after the
\* third, which reported FAILED.
C23_Witness ==
    /\ StatusesSeen = <<Some("IN_QUEUE"), Some("IN_PROGRESS"), Some("FAILED")>>
    /\ log = <<"POST /run", "GET /status", "sleep", "GET /status", "sleep", "GET /status">>
    /\ pc = "done"

\* C24: with a finite timeout and poll_interval > 0, when every HTTP call and every
\* sleep returns, a call of generate (and of generate_sync) ends: it returns an
\* output or raises; and the polls of a call are at most timeout / poll_interval
\* rounded up: a poll is made only while less than timeout has elapsed, and each
\* poll before it was followed by a sleep of at least poll_interval.
C24_GenerateTerminates ==
    /\ [](poll_interval > 0 /\ timeout >= 0)
    /\ [](polls # <<>> => (Len(polls) - 1) * poll_interval < timeout)
    /\ <>(pc = "done" /\ Ended)

\* C24 witness: the longest call: the timeout of MaxTimeout with an interval of 1,
\* ended by the timeout after MaxTimeout polls.
C24_Witness ==
    /\ timeout = MaxTimeout /\ poll_interval = 1
    /\ Len(polls) = MaxTimeout
    /\ pc = "done" /\ outcome.exc = "TimeoutError"

====
